---- MODULE Spec2Model ----
(***************************************************************************)
(* State-machine model of the NCZarr per-variable chunk cache              *)
(* (libnczarr/zxcache.c): a recency list (cache->mru), an indexed LRU      *)
(* (cache->xcache), the heap of cache entries, and the key/value object    *)
(* store reached through nczmap_read / nczmap_write.                       *)
(***************************************************************************)
EXTENDS Integers, Sequences, FiniteSets, TLC

\* ------------------------------------------------------------------------
\* Bounds of the model
\* ------------------------------------------------------------------------
\* chunk indices range over 0..MaxIndex in every dimension
MaxIndex == 1
\* byte values range over 0..MaxByte
MaxByte == 1
\* var->chunk_cache_size ranges over 0..MaxBudget (bytes)
MaxBudget == 1
\* zvar->chunksize ranges over 1..MaxChunkSize (bytes)
MaxChunkSize == 1
\* NCZ_buildchunkkey is applied to ranks 0..MaxRank
MaxRank == 2
\* and to chunk indices 0..MaxKeyIndex in every dimension
MaxKeyIndex == 12
\* the sizing of the cache is exercised with budgets 0..MaxSizeBudget
MaxSizeBudget == 6
\* and chunk sizes 1..MaxSizeChunk
MaxSizeChunk == 3

\* ------------------------------------------------------------------------
\* Program constants
\* ------------------------------------------------------------------------
\* effective rank of the variable (cache->ndims)
ndims == 1
\* cache->dimension_separator
dimension_separator == "."
NULL == 0
NC_NOERR == "NC_NOERR"
NC_EEMPTY == "NC_EEMPTY"
NC_ENOTFOUND == "NC_ENOTFOUND"
NC_ENOMEM == "NC_ENOMEM"
NC_EINVAL == "NC_EINVAL"
\* any store failure other than "object absent"
NC_EIO == "NC_EIO"

Bytes == 0..MaxByte
Budgets == 0..MaxBudget
ChunkSizes == 1..MaxChunkSize
IndexTuples == [1..ndims -> 0..MaxIndex]

\* the most entries the recency list ever holds is one more than the largest
\* maxentries, floordiv(MaxBudget, 1)
MaxId == MaxBudget + 1
Ids == 1..MaxId

\* ------------------------------------------------------------------------
\* Pure helpers
\* ------------------------------------------------------------------------
SeqToSet(s) == {s[k] : k \in 1..Len(s)}

\* the sequence s without its element at (1-based) position k
RemoveAt(s, k) == SubSeq(s, 1, k - 1) \o SubSeq(s, k + 1, Len(s))

\* (x) / (y) on unsigned integers
floordiv(x, y) == x \div y

\* cache->fillchunk == NULL: no fill buffer (a fill buffer has chunksize > 0 bytes)
NoFill == <<>>

\* calloc(1,n): a buffer of n zero bytes
Zeroes(n) == [k \in 1..n |-> 0]

\* a buffer of n bytes all equal to b
Filled(n, b) == [k \in 1..n |-> b]

DigitChars == <<"0", "1", "2", "3", "4", "5", "6", "7", "8", "9">>

\* snprintf(sindex,sizeof(sindex),"%lu",(unsigned long)n): decimal, no leading
\* zeros; the indices of the model are far below 2^32, which every unsigned
\* long holds, so the cast changes nothing
RECURSIVE Decimal(_)
Decimal(n) ==
    IF n < 10 THEN <<DigitChars[n + 1]>>
    ELSE Decimal(n \div 10) \o <<DigitChars[(n % 10) + 1]>>

\* the loop of NCZ_buildchunkkey over r = 0..R-1, as a sequence of characters
RECURSIVE buildchunkkey_loop(_, _, _)
buildchunkkey_loop(r, chunkindices, dimsep) ==
    IF r = 0 THEN <<>>
    ELSE buildchunkkey_loop(r - 1, chunkindices, dimsep)
            \o (IF r > 1 THEN <<dimsep>> ELSE <<>>)
            \o Decimal(chunkindices[r])

\* a key builder that appends the separator after every index
RECURSIVE NCZ_buildchunkkey_trailing(_, _, _)
NCZ_buildchunkkey_trailing(R, chunkindices, dimsep) ==
    IF R = 0 THEN <<>>
    ELSE NCZ_buildchunkkey_trailing(R - 1, chunkindices, dimsep)
            \o Decimal(chunkindices[R]) \o <<dimsep>>

NCZ_buildchunkkey(R, chunkindices, dimsep) ==
    buildchunkkey_loop(R, chunkindices, dimsep)

\* NCZ_varkey(cache->var): the object-store prefix of the variable
varkey == <<"/", "v">>

\* struct ChunkKey filled in by NCZ_buildchunkpath
NCZ_buildchunkpath(chunkindices) ==
    [varkey |-> varkey,
     chunkkey |-> NCZ_buildchunkkey(ndims, chunkindices, dimension_separator)]

\* NCZ_chunkpath(key, dimsep): varkey, separator, chunkkey
NCZ_chunkpath(key, dimsep) == key.varkey \o <<dimsep>> \o key.chunkkey

Paths == {NCZ_chunkpath(NCZ_buildchunkpath(i), dimension_separator) : i \in IndexTuples}

\* ncxcachekey(indices, sizeof(size64_t)*ndims): a digest of the tuple; for the
\* tuples of the model its value stays far below 2^64, so no reduction applies
RECURSIVE ncxcachekey_loop(_, _)
ncxcachekey_loop(indices, n) ==
    IF n = 0 THEN 5381
    ELSE ncxcachekey_loop(indices, n - 1) * 33 + indices[n]

ncxcachekey(indices) == ncxcachekey_loop(indices, Len(indices))

\* ------------------------------------------------------------------------
\* Heap of NCZCacheEntry objects
\* ------------------------------------------------------------------------
\* a heap cell that holds no entry: never allocated, or freed.  A pointer to
\* such a cell that is still kept somewhere is a dangling pointer.
NoEntry ==
    [live |-> FALSE, indices |-> <<>>, key |-> [varkey |-> <<>>, chunkkey |-> <<>>],
     hashkey |-> 0, data |-> <<>>, modified |-> FALSE]

\* calloc(1,sizeof(NCZCacheEntry)) followed by the field assignments that
\* read and write share: indices, data, key, hashkey
NewEntry(indices, hkey, csize) ==
    [live |-> TRUE, indices |-> indices, key |-> NCZ_buildchunkpath(indices),
     hashkey |-> hkey, data |-> Zeroes(csize), modified |-> FALSE]

\* the cell calloc hands out: the lowest free one, whether or not a dangling
\* pointer still names it
AllocId(h) == CHOOSE id \in Ids : h[id] = NoEntry /\ \A o \in Ids : h[o] = NoEntry => id <= o

\* nullfree(e->data); nullfree(e->key.varkey); nullfree(e->key.chunkkey); nullfree(e)
FreeEntry(h, id) == [h EXCEPT ![id] = NoEntry]

\* ------------------------------------------------------------------------
\* Indexed LRU container (ncxcache): a chain of nodes, most recently used
\* first; each node carries its hash key and the entry it points to
\* ------------------------------------------------------------------------
xnode_index(x, hkey) ==
    IF \E k \in 1..Len(x) : x[k].hkey = hkey
    THEN CHOOSE k \in 1..Len(x) : x[k].hkey = hkey /\ \A j \in 1..(k - 1) : x[j].hkey # hkey
    ELSE 0

\* non-promoting lookup
ncxcachelookup(x, hkey) ==
    LET k == xnode_index(x, hkey)
    IN  IF k = 0 THEN [stat |-> NC_ENOTFOUND, content |-> NULL]
        ELSE [stat |-> NC_NOERR, content |-> x[k].content]

\* promote to most recently used
ncxcachetouch(x, hkey) ==
    LET k == xnode_index(x, hkey)
    IN  IF k = 0 THEN x ELSE <<x[k]>> \o RemoveAt(x, k)

\* the new node becomes most recently used
ncxcacheinsert(x, hkey, o) == <<[hkey |-> hkey, content |-> o]>> \o x

\* detach the node and hand back its content
ncxcacheremove(x, hkey) ==
    LET k == xnode_index(x, hkey)
    IN  IF k = 0 THEN [stat |-> NC_ENOTFOUND, content |-> NULL, xcache |-> x]
        ELSE [stat |-> NC_NOERR, content |-> x[k].content, xcache |-> RemoveAt(x, k)]

\* the least recently used entry, NULL when the container is empty
ncxcachelast(x) == IF Len(x) = 0 THEN NULL ELSE x[Len(x)].content

\* ------------------------------------------------------------------------
\* Object store (nczmap): path -> object
\* ------------------------------------------------------------------------
Absent == [present |-> FALSE, bytes |-> <<>>]

Object(bytes) == [present |-> TRUE, bytes |-> bytes]

\* nczmap_read(map,path,0,nbytes,buf) when the store itself does not fail:
\* NC_EEMPTY for an absent object, an error for an object shorter than nbytes
nczmap_read(st, path, nbytes) ==
    IF ~st[path].present THEN [stat |-> NC_EEMPTY, bytes |-> <<>>]
    ELSE IF Len(st[path].bytes) < nbytes THEN [stat |-> NC_EIO, bytes |-> <<>>]
    ELSE [stat |-> NC_NOERR, bytes |-> SubSeq(st[path].bytes, 1, nbytes)]

\* nczmap_write(map,path,0,nbytes,data) when the store accepts the write
nczmap_write(st, path, nbytes, data) ==
    [st EXCEPT ![path] = Object(SubSeq(data, 1, nbytes))]

\* ------------------------------------------------------------------------
\* Observation records (what one call did), kept for stating properties
\* ------------------------------------------------------------------------
NoExpect == [st |-> "none", data |-> <<>>]

\* the recency order of uses without the entry id
Forget(r, id) == SelectSeq(r, LAMBDA o : o # id)

\* position of the first occurrence of ptr in list, Len(list)+1 if none:
\* the scan "for(i=0;i<nclistlength(cache->mru);i++) if(ptr == e) break;"
mru_scan(list, ptr) ==
    IF \E k \in 1..Len(list) : list[k] = ptr
    THEN CHOOSE k \in 1..Len(list) : list[k] = ptr /\ \A j \in 1..(k - 1) : list[j] # ptr
    ELSE Len(list) + 1

\* ------------------------------------------------------------------------
\* put_chunk: one nczmap_write of the entry's buffer at its chunk path.
\* m is the memory the call works on; wres is the store's answer.
\* ------------------------------------------------------------------------
put_chunk(m, csize, id, wres) ==
    LET entry == m.heap[id]
        path == NCZ_chunkpath(entry.key, dimension_separator)
        rec == [id |-> id, path |-> path, data |-> entry.data, stat |-> wres,
                inx |-> (\E k \in 1..Len(m.xcache) : m.xcache[k].content = id),
                live |-> TRUE]
    IN  [m EXCEPT !.store = IF wres = NC_NOERR
                            THEN nczmap_write(m.store, path, csize, entry.data)
                            ELSE m.store,
                  !.wlog = Append(m.wlog, rec)]

\* the answers the store can give to a write
WriteResults == {NC_NOERR, NC_EIO}

\* ------------------------------------------------------------------------
\* makeroom: the set of outcomes of the eviction loop, one per combination
\* of store answers.  stat is the local variable of the same name.
\* ------------------------------------------------------------------------
\* an eviction that leaves the entry's pointer on the recency list
makeroom_evict_keep(m, csize, e, x2, i, wres) ==
    [m EXCEPT !.xcache = x2,
              !.ev = Append(m.ev, [indices |-> m.heap[e].indices, data |-> m.heap[e].data,
                                   modified |-> FALSE, wstat |-> "none", waslru |-> TRUE])]

\* one eviction, after e was taken from the hash index and found at
\* position i of the recency list
makeroom_evict(m, csize, e, x2, i, wres) ==
    LET ent == m.heap[e]
        mru2 == RemoveAt(m.mru, i)
        m1 == [m EXCEPT !.mru = mru2]
        m2 == IF ent.modified THEN put_chunk(m1, csize, e, wres) ELSE m1
        wstat == IF ent.modified THEN wres ELSE "none"
        evrec == [indices |-> ent.indices, data |-> ent.data, modified |-> ent.modified,
                  wstat |-> wstat,
                  waslru |-> (Len(m.recency) > 0 /\ m.recency[Len(m.recency)] = e)]
        old == m.expect[ent.indices]
        exp2 == IF ent.modified
                THEN (IF wres = NC_NOERR THEN [st |-> "evicted", data |-> ent.data]
                      ELSE NoExpect)
                ELSE (IF old.st = "cached" THEN NoExpect ELSE old)
    IN  [m2 EXCEPT !.xcache = x2,
                   !.heap = FreeEntry(m2.heap, e),
                   !.recency = Forget(m2.recency, e),
                   !.ev = Append(m2.ev, evrec),
                   !.expect = [m2.expect EXCEPT ![ent.indices] = exp2]]

\* one pass through the body of the loop, entered with the local stat: the
\* set of ways it can end.  exit is the "goto done" after ncxcacheremove failed.
makeroom_iter(m, csize, stat) ==
    LET e == ncxcachelast(m.xcache)
    IN  IF e = NULL
        THEN \* e->hashkey through a null pointer: the process faults
             {[m |-> m, stat |-> stat, crash |-> TRUE, exit |-> FALSE]}
        ELSE
          LET rm == ncxcacheremove(m.xcache, m.heap[e].hashkey)
              i == mru_scan(m.mru, rm.content)
          IN  IF rm.stat # NC_NOERR
              THEN {[m |-> m, stat |-> rm.stat, crash |-> FALSE, exit |-> TRUE]}
              ELSE IF rm.content # e \/ i > Len(m.mru)
              THEN \* assert(e == ptr), assert(i < nclistlength(cache->mru))
                   {[m |-> m, stat |-> rm.stat, crash |-> TRUE, exit |-> FALSE]}
              ELSE {[m |-> makeroom_evict(m, csize, e, rm.xcache, i, wres),
                     stat |-> IF m.heap[e].modified THEN wres ELSE rm.stat,
                     crash |-> FALSE, exit |-> FALSE]
                    : wres \in (IF m.heap[e].modified THEN WriteResults ELSE {NC_NOERR})}

\* a loop test that never asks for an eviction
makeroom_test_never(m, maxentries) == FALSE

\* "while(nclistlength(cache->mru) > cache->maxentries)"
makeroom_test(m, maxentries) == Len(m.mru) > maxentries

RECURSIVE makeroom(_, _, _, _)
makeroom(m, maxentries, csize, stat) ==
    IF ~makeroom_test(m, maxentries)
    THEN {[m |-> m, stat |-> stat, crash |-> FALSE]}
    ELSE UNION {
           IF it.crash \/ it.exit
           THEN {[m |-> it.m, stat |-> it.stat, crash |-> it.crash]}
           ELSE makeroom(it.m, maxentries, csize, it.stat)
           : it \in makeroom_iter(m, csize, stat) }

\* ------------------------------------------------------------------------
\* State
\* ------------------------------------------------------------------------
VARIABLES
    mru,              \* cache->mru: list of entry pointers, in push order
    xcache,           \* cache->xcache: the indexed LRU
    heap,             \* the NCZCacheEntry objects, by address
    maxentries,       \* cache->maxentries
    chunksize,        \* cache->chunksize
    fillchunk,        \* cache->fillchunk
    chunk_cache_size, \* var->chunk_cache_size
    no_write,         \* file->no_write
    store,            \* the object store behind zfile->map
    crashed,          \* the process has faulted
    datap,            \* the caller's buffer pointer, the variable behind datap
    op,               \* the last call and what it returned
    wlog,             \* the store writes the last call issued
    ev,               \* the evictions the last call made
    recency,          \* the live entries by last use, most recent first
    expect            \* per chunk, the bytes the caller has put into the cache

vars == <<mru, xcache, heap, maxentries, chunksize, fillchunk, chunk_cache_size,
          no_write, store, crashed, datap, op, wlog, ev, recency, expect>>

\* the memory a call works on
World ==
    [mru |-> mru, xcache |-> xcache, heap |-> heap, store |-> store,
     wlog |-> <<>>, ev |-> <<>>, recency |-> recency, expect |-> expect]

Commit(m) ==
    /\ mru' = m.mru
    /\ xcache' = m.xcache
    /\ heap' = m.heap
    /\ store' = m.store
    /\ wlog' = m.wlog
    /\ ev' = m.ev
    /\ recency' = m.recency
    /\ expect' = m.expect

OpRec(name, indices, stat, hit, sres) ==
    [name |-> name, indices |-> indices, stat |-> stat, hit |-> hit, sres |-> sres]

\* the process runs and the cache has not been handed to NCZ_free_chunk_cache
Usable == ~crashed /\ op.name # "free"

\* a sizing without the clamp to 1
cache_nelems_unclamped(cachesize, csize) == floordiv(cachesize, csize)

\* the value of nelems that NCZ_create_chunk_cache and NCZ_adjust_var_cache
\* both compute: cachesize / chunksize, and 1 when that is 0
cache_nelems(cachesize, csize) ==
    LET nelems == floordiv(cachesize, csize)
    IN  IF nelems = 0 THEN 1 ELSE nelems

\* the stores a dataset can be opened on: every chunk object absent, or
\* holding a chunk of the variable's chunk size
InitStores(csize) == [Paths -> {Absent, Object(Filled(csize, MaxByte))}]

\* the state NCZ_create_chunk_cache leaves
Init ==
    /\ mru = <<>>
    /\ xcache = <<>>
    /\ heap = [id \in Ids |-> NoEntry]
    /\ chunk_cache_size \in Budgets
    /\ chunksize \in ChunkSizes
    /\ maxentries = cache_nelems(chunk_cache_size, chunksize)
    /\ fillchunk = NoFill
    /\ no_write \in BOOLEAN
    /\ store \in InitStores(chunksize)
    /\ crashed = FALSE
    /\ datap = NULL
    /\ op = OpRec("create", <<>>, NC_NOERR, FALSE, "none")
    /\ wlog = <<>>
    /\ ev = <<>>
    /\ recency = <<>>
    /\ expect = [i \in IndexTuples |-> NoExpect]

\* ------------------------------------------------------------------------
\* NCZ_read_cache_chunk
\* ------------------------------------------------------------------------
\* what a call hands back: the memory, the return code, the caller's pointer
Outcome(m, stat, dp, crash, hit, sres) ==
    [m |-> m, stat |-> stat, datap |-> dp, crash |-> crash, hit |-> hit, sres |-> sres]

\* the points at which a read can fail on its own: the two callocs,
\* NCZ_buildchunkpath, the store, ncxcacheinsert
ReadFaults == {"none", "entry", "data", "path", "io", "insert"}

\* get_chunk: the store's answer for the entry's path
get_chunk(m, csize, entry, fault) ==
    IF fault = "io" THEN [stat |-> NC_EIO, bytes |-> <<>>]
    ELSE nczmap_read(m.store, NCZ_chunkpath(entry.key, dimension_separator), csize)

\* a fabricated entry marked modified whatever file->no_write says
read_switch_modified(entry, got, csize, nowrite) ==
    IF got.stat = NC_NOERR THEN [entry EXCEPT !.data = got.bytes]
    ELSE [entry EXCEPT !.modified = TRUE, !.data = Zeroes(csize)]

\* the switch on get_chunk's result, cases NC_NOERR and NC_EEMPTY: a chunk the
\* store does not hold is zero-filled (FILLONREAD is undefined) and marked
\* modified unless the file is read-only
read_switch(entry, got, csize, nowrite) ==
    IF got.stat = NC_NOERR THEN [entry EXCEPT !.data = got.bytes]
    ELSE [entry EXCEPT !.modified = ~nowrite, !.data = Zeroes(csize)]

\* a read that forgets to tell the upper layers
read_done_stat_silent(created, stat) == stat

\* done: if(created && stat == NC_NOERR) stat = NC_EEMPTY
read_done_stat(created, stat) ==
    IF created /\ stat = NC_NOERR THEN NC_EEMPTY ELSE stat

\* the miss branch of read after makeroom returned NC_NOERR and the entry
\* was calloc'ed
read_create(m, indices, hkey, csize, nowrite, dp, fault) ==
    LET id == AllocId(m.heap)
        entry == NewEntry(indices, hkey, csize)
        got == get_chunk(m, csize, entry, fault)
        created == (got.stat = NC_EEMPTY)
    IN  IF fault \in {"data", "path"}
        THEN \* done: the entry is freed again
             Outcome(m, NC_ENOMEM, dp, FALSE, FALSE, "none")
        ELSE IF got.stat \notin {NC_NOERR, NC_EEMPTY}
        THEN Outcome(m, got.stat, dp, FALSE, FALSE, got.stat)
        ELSE IF fault = "insert"
        THEN \* nclistpush came first: the list keeps the pointer, done frees the entry
             Outcome([m EXCEPT !.mru = Append(m.mru, id)],
                     read_done_stat(created, NC_ENOMEM), dp, FALSE, FALSE, got.stat)
        ELSE Outcome([m EXCEPT !.mru = Append(m.mru, id),
                               !.xcache = ncxcacheinsert(m.xcache, hkey, id),
                               !.heap = [m.heap EXCEPT
                                            ![id] = read_switch(entry, got, csize, nowrite)],
                               !.recency = <<id>> \o Forget(m.recency, id)],
                     read_done_stat(created, NC_NOERR), id, FALSE, FALSE, got.stat)

\* the miss branch of read from the point where makeroom handed back r
read_miss(r, indices, hkey, csize, nowrite, dp) ==
    IF r.crash \/ r.stat # NC_NOERR
    THEN {Outcome(r.m, r.stat, dp, r.crash, FALSE, "none")}
    ELSE {Outcome(r.m, NC_ENOMEM, dp, FALSE, FALSE, "none")}
         \cup {read_create(r.m, indices, hkey, csize, nowrite, dp, fault)
               : fault \in ReadFaults \ {"entry"}}

\* the body of read from the lookup on, hkey being what ncxcachekey returned:
\* the entry the hash index holds under hkey is taken as it is
read_lookup(m, indices, hkey, maxents, csize, nowrite, dp) ==
    LET lk == ncxcachelookup(m.xcache, hkey)
    IN  IF lk.stat = NC_NOERR
        THEN {Outcome([m EXCEPT !.xcache = ncxcachetouch(m.xcache, hkey),
                                !.recency = <<lk.content>> \o Forget(m.recency, lk.content)],
                      NC_NOERR, lk.content, FALSE, TRUE, "none")}
        ELSE UNION {read_miss(r, indices, hkey, csize, nowrite, dp)
                    : r \in makeroom(m, maxents, csize, NC_NOERR)}

NCZ_read_cache_chunk(m, indices, maxents, csize, nowrite, dp) ==
    read_lookup(m, indices, ncxcachekey(indices), maxents, csize, nowrite, dp)

\* a completed read of a chunk ends the wait for "the next read" of it
AfterRead(e, indices, o) ==
    IF ~o.crash /\ o.stat \in {NC_NOERR, NC_EEMPTY} /\ e[indices].st = "evicted"
    THEN [e EXCEPT ![indices] = NoExpect]
    ELSE e

Read(indices) ==
    /\ Usable
    /\ \E o \in NCZ_read_cache_chunk(World, indices, maxentries, chunksize, no_write, datap) :
          /\ Commit([o.m EXCEPT !.expect = AfterRead(o.m.expect, indices, o)])
          /\ crashed' = o.crash
          /\ datap' = o.datap
          /\ op' = OpRec("read", indices, o.stat, o.hit, o.sres)
    /\ UNCHANGED <<maxentries, chunksize, fillchunk, chunk_cache_size, no_write>>

\* ------------------------------------------------------------------------
\* NCZ_write_cache_chunk
\* ------------------------------------------------------------------------
\* the points at which a write can fail on its own
WriteFaults == {"none", "entry", "data", "path"}

\* entry is NULL when it is tested, so the creation branch always runs; no
\* lookup, no insertion into the hash index, and *datap is never assigned
write_create(r, indices, hkey, csize, dp) ==
    IF r.crash \/ r.stat # NC_NOERR
    THEN {Outcome(r.m, r.stat, dp, r.crash, FALSE, "none")}
    ELSE {IF fault # "none"
          THEN Outcome(r.m, NC_ENOMEM, dp, FALSE, FALSE, "none")
          ELSE LET id == AllocId(r.m.heap)
                   entry == [NewEntry(indices, hkey, csize) EXCEPT !.modified = TRUE]
               IN  Outcome([r.m EXCEPT !.mru = Append(r.m.mru, id),
                                       !.heap = [r.m.heap EXCEPT ![id] = entry],
                                       !.recency = <<id>> \o Forget(r.m.recency, id),
                                       !.expect = [r.m.expect EXCEPT ![indices] = NoExpect]],
                           NC_NOERR, dp, FALSE, FALSE, "none")
          : fault \in WriteFaults}

NCZ_write_cache_chunk(m, indices, maxents, csize, dp) ==
    LET hkey == ncxcachekey(indices)
    IN  UNION {write_create(r, indices, hkey, csize, dp)
               : r \in makeroom(m, maxents, csize, NC_NOERR)}

Write(indices) ==
    /\ Usable
    /\ \E o \in NCZ_write_cache_chunk(World, indices, maxentries, chunksize, datap) :
          /\ Commit(o.m)
          /\ crashed' = o.crash
          /\ datap' = o.datap
          /\ op' = OpRec("write", indices, o.stat, o.hit, o.sres)
    /\ UNCHANGED <<maxentries, chunksize, fillchunk, chunk_cache_size, no_write>>

\* ------------------------------------------------------------------------
\* The caller of a successful write fills the buffer it believes the call
\* handed back: whatever its pointer variable holds
\* ------------------------------------------------------------------------
IsLive(h, p) == IF p = NULL THEN FALSE ELSE h[p].live

Fill(b) ==
    /\ Usable
    /\ op.name = "write" /\ op.stat = NC_NOERR
    /\ \/ \* a null pointer, or freed memory that faults
          /\ ~IsLive(heap, datap)
          /\ crashed' = TRUE
          /\ UNCHANGED <<heap, expect>>
       \/ \* freed memory that takes the bytes silently
          /\ datap # NULL /\ ~IsLive(heap, datap)
          /\ crashed' = FALSE
          /\ expect' = [expect EXCEPT ![op.indices] =
                           [st |-> "cached", data |-> Filled(chunksize, b)]]
          /\ UNCHANGED heap
       \/ /\ IsLive(heap, datap)
          /\ crashed' = FALSE
          /\ heap' = [heap EXCEPT ![datap].data = Filled(Len(heap[datap].data), b)]
          /\ expect' = [expect EXCEPT ![op.indices] =
                           [st |-> "cached", data |-> Filled(chunksize, b)]]
    /\ op' = OpRec("fill", op.indices, NC_NOERR, FALSE, "none")
    /\ wlog' = <<>>
    /\ ev' = <<>>
    /\ UNCHANGED <<mru, xcache, maxentries, chunksize, fillchunk, chunk_cache_size,
                   no_write, store, datap, recency>>

\* ------------------------------------------------------------------------
\* NCZ_flush_chunk_cache
\* ------------------------------------------------------------------------
Buffers(csize) == {Filled(csize, b) : b \in Bytes}

Result(m, stat, crash) == [m |-> m, stat |-> stat, crash |-> crash]

\* what reading entry->modified through a dangling pointer can lead to: a
\* fault; a zero; a non-zero value followed by a store write built from
\* whatever the freed memory holds, which fails, lands outside the chunk
\* objects, or overwrites one of them
RECURSIVE flush_loop(_, _, _)
flush_dangling(m, csize, k, id) ==
    {Result(m, NC_NOERR, TRUE), Result(m, NC_EIO, FALSE)}
    \cup flush_loop(m, csize, k + 1)
    \cup UNION {
           flush_loop([m EXCEPT !.store = nczmap_write(m.store, path, csize, d),
                                !.wlog = Append(m.wlog,
                                            [id |-> id, path |-> path, data |-> d,
                                             stat |-> NC_NOERR, inx |-> FALSE, live |-> FALSE])],
                      csize, k + 1)
           : path \in Paths, d \in Buffers(csize) }

\* a flush that clears the modified bit before it looks at the store's answer
flush_written_always(m, id, wres) == [m EXCEPT !.heap[id].modified = FALSE]

\* a flush that drops an entry once it is written
flush_written_drop(m, id, wres) ==
    IF wres # NC_NOERR THEN m
    ELSE [m EXCEPT !.heap = FreeEntry(m.heap, id),
                   !.mru = SelectSeq(m.mru, LAMBDA o : o # id)]

\* "if((stat=put_chunk(cache,entry))) goto done; entry->modified = 0;": the
\* memory after the store answered wres
flush_written(m, id, wres) ==
    IF wres # NC_NOERR THEN m ELSE [m EXCEPT !.heap[id].modified = FALSE]

\* the loop over i = k-1 .. nclistlength(cache->mru)-1
flush_loop(m, csize, k) ==
    IF k > Len(m.mru) THEN {Result(m, NC_NOERR, FALSE)}
    ELSE
      LET id == m.mru[k]
          entry == m.heap[id]
      IN  IF ~entry.live THEN flush_dangling(m, csize, k, id)
          ELSE IF entry.modified
          THEN UNION {
                 LET m2 == flush_written(put_chunk(m, csize, id, wres), id, wres)
                 IN  IF wres # NC_NOERR THEN {Result(m2, wres, FALSE)}
                     ELSE flush_loop(m2, csize, k + 1)
                 : wres \in WriteResults }
          ELSE flush_loop(m, csize, k + 1)

\* a flush that takes a cache of one entry for an empty one
NCZ_flush_chunk_cache_early(m, csize) ==
    IF Len(m.mru) <= 1 THEN {Result(m, NC_NOERR, FALSE)}
    ELSE flush_loop(m, csize, 1)

NCZ_flush_chunk_cache(m, csize) ==
    IF Len(m.mru) = 0 THEN {Result(m, NC_NOERR, FALSE)}
    ELSE flush_loop(m, csize, 1)

\* a flush that returned NC_NOERR makes what the caller cached durable
AfterFlush(e, stat) ==
    IF stat # NC_NOERR THEN e
    ELSE [i \in IndexTuples |->
             IF e[i].st = "cached" THEN [e[i] EXCEPT !.st = "flushed"] ELSE e[i]]

Flush ==
    /\ Usable
    /\ \E r \in NCZ_flush_chunk_cache(World, chunksize) :
          /\ Commit([r.m EXCEPT !.expect = IF r.crash THEN r.m.expect
                                           ELSE AfterFlush(r.m.expect, r.stat)])
          /\ crashed' = r.crash
          /\ op' = OpRec("flush", <<>>, r.stat, FALSE, "none")
    /\ UNCHANGED <<maxentries, chunksize, fillchunk, chunk_cache_size, no_write, datap>>

\* ------------------------------------------------------------------------
\* NCZ_set_var_chunk_cache and NCZ_adjust_var_cache
\* ------------------------------------------------------------------------
\* preemption, in tenths
Preemptions == {-1, 0, 10, 11}

\* nelems and preemption are stored on the variable and read by nothing here
NCZ_set_var_chunk_cache(cachesize, preemption) ==
    /\ Usable
    /\ IF preemption < 0 \/ preemption > 10
       THEN /\ op' = OpRec("set_var_chunk_cache", <<>>, NC_EINVAL, FALSE, "none")
            /\ UNCHANGED chunk_cache_size
       ELSE /\ op' = OpRec("set_var_chunk_cache", <<>>, NC_NOERR, FALSE, "none")
            /\ chunk_cache_size' = cachesize
    /\ wlog' = <<>>
    /\ ev' = <<>>
    /\ UNCHANGED <<mru, xcache, heap, maxentries, chunksize, fillchunk, no_write, store,
                   crashed, datap, recency, expect>>

\* zvar_chunksize is zvar->chunksize at the time of the call; the value
\* makeroom returns is dropped and NC_NOERR returned
NCZ_adjust_var_cache(zvar_chunksize) ==
    /\ Usable
    /\ \E r \in makeroom(World, 0, chunksize, NC_NOERR) :
          /\ Commit(r.m)
          /\ crashed' = r.crash
          /\ IF r.crash
             THEN /\ maxentries' = 0
                  /\ UNCHANGED <<chunksize, fillchunk>>
             ELSE /\ maxentries' = cache_nelems(chunk_cache_size, zvar_chunksize)
                  /\ chunksize' = zvar_chunksize
                  /\ fillchunk' = NoFill
          /\ op' = OpRec("adjust", <<>>, NC_NOERR, FALSE, "none")
    /\ UNCHANGED <<chunk_cache_size, no_write, datap>>

\* ------------------------------------------------------------------------
\* NCZ_free_chunk_cache
\* ------------------------------------------------------------------------
\* the loop "while(nclistlength(cache->mru) > 0)": each entry is taken off the
\* front of the list, looked for in the hash index by its hash key and freed;
\* nothing is written to the store.  ptr stays uninitialized when the index
\* has no node for the key, and the assert then compares garbage.
RECURSIVE free_loop(_)
free_loop(m) ==
    IF Len(m.mru) = 0 THEN {Result(m, NC_NOERR, FALSE)}
    ELSE
      LET entry == m.mru[1]
          m1 == [m EXCEPT !.mru = Tail(m.mru)]
      IN  IF ~m.heap[entry].live
          THEN \* entry->hashkey read from freed memory, and a second free
               {Result(m1, NC_NOERR, TRUE)} \cup free_loop(m1)
          ELSE
            LET rm == ncxcacheremove(m.xcache, m.heap[entry].hashkey)
                m2 == [m1 EXCEPT !.xcache = rm.xcache,
                                 !.heap = FreeEntry(m1.heap, entry),
                                 !.recency = Forget(m1.recency, entry)]
            IN  IF rm.stat # NC_NOERR
                THEN {Result(m1, NC_NOERR, TRUE)} \cup free_loop(m2)
                ELSE IF rm.content # entry
                THEN \* assert(ptr == entry)
                     {Result([m1 EXCEPT !.xcache = rm.xcache], NC_NOERR, TRUE)}
                ELSE free_loop(m2)

\* ncxcachefree(cache->xcache); nclistfree(cache->mru); nullfree(cache->fillchunk)
free_cache(m) == [m EXCEPT !.xcache = <<>>, !.mru = <<>>]

NCZ_free_chunk_cache ==
    /\ Usable
    /\ \E r \in free_loop(World) :
          /\ Commit(IF r.crash THEN r.m
                    ELSE [free_cache(r.m) EXCEPT !.expect = [i \in IndexTuples |-> NoExpect]])
          /\ crashed' = r.crash
          /\ fillchunk' = IF r.crash THEN fillchunk ELSE NoFill
    /\ op' = OpRec("free", <<>>, NC_NOERR, FALSE, "none")
    /\ UNCHANGED <<maxentries, chunksize, chunk_cache_size, no_write, datap>>

\* "if(cache == NULL) return;": the call on a null handle
NCZ_free_chunk_cache_null ==
    /\ Usable
    /\ op' = OpRec("free_null", <<>>, NC_NOERR, FALSE, "none")
    /\ wlog' = <<>>
    /\ ev' = <<>>
    /\ UNCHANGED <<mru, xcache, heap, maxentries, chunksize, fillchunk, chunk_cache_size,
                   no_write, store, crashed, datap, recency, expect>>

Next ==
    \/ NCZ_free_chunk_cache
    \/ NCZ_free_chunk_cache_null
    \/ \E i \in IndexTuples : Read(i)
    \/ \E i \in IndexTuples : Write(i)
    \/ \E b \in Bytes \ {0} : Fill(b)
    \/ Flush
    \/ \E cachesize \in Budgets, preemption \in Preemptions :
          NCZ_set_var_chunk_cache(cachesize, preemption)
    \/ \E zvar_chunksize \in ChunkSizes : NCZ_adjust_var_cache(zvar_chunksize)

Spec == Init /\ [][Next]_vars

\* ------------------------------------------------------------------------
\* The same cache with the loop of makeroom taken one pass at a time: a read
\* that misses, a write and a reconfiguration enter makeroom, each pass
\* through the loop body is a step, and the caller goes on when makeroom
\* returns
\* ------------------------------------------------------------------------
\* the memory of a call that is under way
WorldCont == [World EXCEPT !.wlog = wlog, !.ev = ev]

\* a call inside makeroom: who called, with what argument, the local stat,
\* and whether "goto done" was taken
RoomRec(caller, arg, stat, exit) ==
    [name |-> "makeroom", caller |-> caller, arg |-> arg, stat |-> stat, exit |-> exit]

InRoom == op.name = "makeroom"

Idle == Usable /\ ~InRoom

RoomEnter(caller, arg) ==
    /\ op' = RoomRec(caller, arg, NC_NOERR, FALSE)
    /\ wlog' = <<>>
    /\ ev' = <<>>
    /\ UNCHANGED <<mru, xcache, heap, chunksize, fillchunk, chunk_cache_size,
                   no_write, store, crashed, datap, recency, expect>>

RoomReadHit(indices) ==
    /\ Idle
    /\ ncxcachelookup(xcache, ncxcachekey(indices)).stat = NC_NOERR
    /\ Read(indices)

RoomReadMiss(indices) ==
    /\ Idle
    /\ ncxcachelookup(xcache, ncxcachekey(indices)).stat # NC_NOERR
    /\ RoomEnter("read", indices)
    /\ UNCHANGED maxentries

RoomWrite(indices) ==
    /\ Idle
    /\ RoomEnter("write", indices)
    /\ UNCHANGED maxentries

\* "zvar->cache->maxentries = 0; makeroom(zvar->cache);"
RoomAdjust(zvar_chunksize) ==
    /\ Idle
    /\ RoomEnter("adjust", zvar_chunksize)
    /\ maxentries' = 0

\* one pass through the loop body
MakeroomStep ==
    /\ InRoom /\ ~crashed /\ ~op.exit
    /\ makeroom_test(World, maxentries)
    /\ \E it \in makeroom_iter(WorldCont, chunksize, op.stat) :
          /\ Commit(it.m)
          /\ crashed' = it.crash
          /\ op' = [op EXCEPT !.stat = it.stat, !.exit = it.exit]
    /\ UNCHANGED <<maxentries, chunksize, fillchunk, chunk_cache_size, no_write, datap>>

\* makeroom returns and its caller runs to its end
MakeroomReturn ==
    /\ InRoom /\ ~crashed
    /\ op.exit \/ ~makeroom_test(World, maxentries)
    /\ LET r == [m |-> WorldCont, stat |-> op.stat, crash |-> FALSE]
       IN  IF op.caller = "adjust"
           THEN /\ Commit(r.m)
                /\ maxentries' = cache_nelems(chunk_cache_size, op.arg)
                /\ chunksize' = op.arg
                /\ fillchunk' = NoFill
                /\ op' = OpRec("adjust", <<>>, NC_NOERR, FALSE, "none")
                /\ UNCHANGED <<chunk_cache_size, no_write, datap, crashed>>
           ELSE /\ \E o \in (IF op.caller = "read"
                              THEN read_miss(r, op.arg, ncxcachekey(op.arg), chunksize,
                                             no_write, datap)
                              ELSE write_create(r, op.arg, ncxcachekey(op.arg), chunksize,
                                                datap)) :
                      /\ Commit([o.m EXCEPT !.expect =
                                    IF op.caller = "read"
                                    THEN AfterRead(o.m.expect, op.arg, o) ELSE o.m.expect])
                      /\ crashed' = o.crash
                      /\ datap' = o.datap
                      /\ op' = OpRec(op.caller, op.arg, o.stat, o.hit, o.sres)
                /\ UNCHANGED <<maxentries, chunksize, fillchunk, chunk_cache_size, no_write>>

RoomNext ==
    \/ \E i \in IndexTuples : RoomReadHit(i)
    \/ \E i \in IndexTuples : RoomReadMiss(i)
    \/ \E i \in IndexTuples : RoomWrite(i)
    \/ \E zvar_chunksize \in ChunkSizes : RoomAdjust(zvar_chunksize)
    \/ MakeroomStep
    \/ MakeroomReturn

\* a new cache of a writable dataset whose store holds no chunk yet, with the
\* largest budget
RoomInit ==
    /\ Init
    /\ ~no_write
    /\ chunk_cache_size = MaxBudget
    /\ store = [p \in Paths |-> Absent]

\* the thread inside makeroom keeps running
RoomSpec ==
    RoomInit /\ [][RoomNext]_vars /\ WF_vars(MakeroomStep) /\ WF_vars(MakeroomReturn)

\* ------------------------------------------------------------------------
\* The cache with a fill buffer: the code that owns the variable builds
\* cache->fillchunk when it first needs one; reads and reconfigurations go on
\* ------------------------------------------------------------------------
BuildFillchunk(b) ==
    /\ Usable
    /\ fillchunk = NoFill
    /\ fillchunk' = Filled(chunksize, b)
    /\ op' = OpRec("fillchunk", <<>>, NC_NOERR, FALSE, "none")
    /\ wlog' = <<>>
    /\ ev' = <<>>
    /\ UNCHANGED <<mru, xcache, heap, maxentries, chunksize, chunk_cache_size, no_write,
                   store, crashed, datap, recency, expect>>

FillNext ==
    \/ \E b \in Bytes \ {0} : BuildFillchunk(b)
    \/ \E i \in IndexTuples : Read(i)
    \/ \E zvar_chunksize \in ChunkSizes : NCZ_adjust_var_cache(zvar_chunksize)

FillSpec == Init /\ [][FillNext]_vars

\* ------------------------------------------------------------------------
\* The cache of a variable read at index tuples whose 64-bit digests
\* coincide (a digest of 64 bits cannot tell all tuples of rank 2 and more
\* apart): ncxcachekey gives every tuple of the model the same key
\* ------------------------------------------------------------------------
ncxcachekey_coinciding(indices) == ncxcachekey([k \in 1..ndims |-> 0])

HashRead(indices) ==
    /\ Usable
    /\ \E o \in read_lookup(World, indices, ncxcachekey_coinciding(indices), maxentries,
                             chunksize, no_write, datap) :
          /\ Commit([o.m EXCEPT !.expect = AfterRead(o.m.expect, indices, o)])
          /\ crashed' = o.crash
          /\ datap' = o.datap
          /\ op' = OpRec("read", indices, o.stat, o.hit, o.sres)
    /\ UNCHANGED <<maxentries, chunksize, fillchunk, chunk_cache_size, no_write>>

HashNext ==
    \/ \E i \in IndexTuples : HashRead(i)
    \/ Flush
    \/ \E zvar_chunksize \in ChunkSizes : NCZ_adjust_var_cache(zvar_chunksize)

HashSpec == Init /\ [][HashNext]_vars

\* ------------------------------------------------------------------------
\* NCZ_buildchunkkey on its own: a cache that is never used, and one call of
\* the function on each rank, index tuple and separator
\* ------------------------------------------------------------------------
\* islegaldimsep
DimSeps == {".", "/"}

KeyInputs ==
    UNION {[R : {R}, chunkindices : [1..R -> 0..MaxKeyIndex], dimsep : DimSeps]
           : R \in 0..MaxRank}

IdleCache ==
    /\ mru = <<>>
    /\ xcache = <<>>
    /\ heap = [id \in Ids |-> NoEntry]
    /\ chunk_cache_size = 0
    /\ chunksize = 1
    /\ maxentries = 1
    /\ fillchunk = NoFill
    /\ no_write = FALSE
    /\ store = [p \in Paths |-> Absent]
    /\ crashed = FALSE
    /\ datap = NULL
    /\ wlog = <<>>
    /\ ev = <<>>
    /\ recency = <<>>
    /\ expect = [i \in IndexTuples |-> NoExpect]

KeyInit ==
    /\ IdleCache
    /\ \E in \in KeyInputs :
          op = [name |-> "input", R |-> in.R, chunkindices |-> in.chunkindices,
                dimsep |-> in.dimsep, key |-> <<>>]

BuildKey ==
    /\ op.name = "input"
    /\ op' = [op EXCEPT !.name = "NCZ_buildchunkkey",
                        !.key = NCZ_buildchunkkey(op.R, op.chunkindices, op.dimsep)]
    /\ UNCHANGED <<mru, xcache, heap, maxentries, chunksize, fillchunk, chunk_cache_size,
                   no_write, store, crashed, datap, wlog, ev, recency, expect>>

KeyNext == BuildKey

KeySpec == KeyInit /\ [][KeyNext]_vars

\* ------------------------------------------------------------------------
\* The sizing of the cache on its own: NCZ_create_chunk_cache on each budget
\* and chunk size, then NCZ_set_var_chunk_cache and NCZ_adjust_var_cache on a
\* cache that holds no chunk
\* ------------------------------------------------------------------------
SizeBudgets == 0..MaxSizeBudget

SizeChunkSizes == 1..MaxSizeChunk

SizeInit ==
    /\ mru = <<>>
    /\ xcache = <<>>
    /\ heap = [id \in Ids |-> NoEntry]
    /\ chunk_cache_size \in SizeBudgets
    /\ chunksize \in SizeChunkSizes
    /\ maxentries = cache_nelems(chunk_cache_size, chunksize)
    /\ fillchunk = NoFill
    /\ no_write = FALSE
    /\ store = [p \in Paths |-> Absent]
    /\ crashed = FALSE
    /\ datap = NULL
    /\ op = OpRec("create", <<>>, NC_NOERR, FALSE, "none")
    /\ wlog = <<>>
    /\ ev = <<>>
    /\ recency = <<>>
    /\ expect = [i \in IndexTuples |-> NoExpect]

SizeNext ==
    \/ \E cachesize \in SizeBudgets, preemption \in Preemptions :
          NCZ_set_var_chunk_cache(cachesize, preemption)
    \/ \E zvar_chunksize \in SizeChunkSizes : NCZ_adjust_var_cache(zvar_chunksize)

SizeSpec == SizeInit /\ [][SizeNext]_vars

\* ------------------------------------------------------------------------
\* The cache of a variable whose chunk size changes: created with any of the
\* chunk sizes, read, written, filled, flushed and reconfigured to any other
\* ------------------------------------------------------------------------
ResizeInit ==
    /\ mru = <<>>
    /\ xcache = <<>>
    /\ heap = [id \in Ids |-> NoEntry]
    /\ chunk_cache_size \in Budgets
    /\ chunksize \in SizeChunkSizes
    /\ maxentries = cache_nelems(chunk_cache_size, chunksize)
    /\ fillchunk = NoFill
    /\ no_write = FALSE
    /\ store = [p \in Paths |-> Absent]
    /\ crashed = FALSE
    /\ datap = NULL
    /\ op = OpRec("create", <<>>, NC_NOERR, FALSE, "none")
    /\ wlog = <<>>
    /\ ev = <<>>
    /\ recency = <<>>
    /\ expect = [i \in IndexTuples |-> NoExpect]

ResizeNext ==
    \/ \E i \in IndexTuples : Read(i)
    \/ \E i \in IndexTuples : Write(i)
    \/ \E b \in Bytes \ {0} : Fill(b)
    \/ Flush
    \/ \E zvar_chunksize \in SizeChunkSizes : NCZ_adjust_var_cache(zvar_chunksize)

ResizeSpec == ResizeInit /\ [][ResizeNext]_vars

\* ------------------------------------------------------------------------
\* Properties
\* ------------------------------------------------------------------------
\* the last call was a read that handed a buffer back
ReadDone == ~crashed /\ op.name = "read" /\ op.stat \in {NC_NOERR, NC_EEMPTY}

\* the buffer the last read handed back holds the bytes d
Returned(d) == IsLive(heap, datap) /\ heap[datap].data = d

\* every pointer on the recency list names a live entry
NoDangling == \A k \in 1..Len(mru) : heap[mru[k]].live

\* C1: a read of chunk i that completes while the bytes the caller put in
\* through write(i) are still in the cache (not evicted since) hands back a
\* buffer holding exactly those bytes.
C1_ReadAfterWrite ==
    (ReadDone /\ expect[op.indices].st = "cached")
        => Returned(expect[op.indices].data)

\* C2: after every completed operation the number of live entries is at most
\* maxentries.
C2_AtMostMaxentries == ~crashed => Len(mru) <= maxentries

\* C3: once a flush has returned success after write(i) was filled with
\* bytes B, a read of i hands back B and does not report the chunk as created.
C3_Durability ==
    (ReadDone /\ expect[op.indices].st = "flushed")
        => (Returned(expect[op.indices].data) /\ op.stat = NC_NOERR)


\* the entry at address id is in the hash index
InIndex(x, id) == \E k \in 1..Len(x) : x[k].content = id

\* the store writes of the last call that came from the live entry id
WritesOf(log, id) == {k \in 1..Len(log) : log[k].live /\ log[k].id = id}

\* the step is a flush that returned NC_NOERR
FlushOK == op'.name = "flush" /\ op'.stat = NC_NOERR /\ ~crashed'

\* C4: when flush returns success, every live entry that was modified has had
\* its bytes written to the store at its chunk path, and no live entry is
\* modified any more.
C4_FlushPersists ==
    [][FlushOK =>
         /\ \A id \in Ids :
               (heap[id].live /\ heap[id].modified) =>
                  \E k \in WritesOf(wlog', id) :
                     /\ wlog'[k].stat = NC_NOERR
                     /\ wlog'[k].path = NCZ_chunkpath(heap[id].key, dimension_separator)
                     /\ wlog'[k].data = heap[id].data
         /\ \A id \in Ids : heap'[id].live => ~heap'[id].modified]_vars

\* a flush returned success after writing back an entry that write created
C4_Witness ==
    /\ ~crashed /\ op.name = "flush" /\ op.stat = NC_NOERR
    /\ \E k \in 1..Len(wlog) : wlog[k].live /\ ~wlog[k].inx /\ wlog[k].stat = NC_NOERR

\* the chunk path of an index tuple
PathOf(indices) == NCZ_chunkpath(NCZ_buildchunkpath(indices), dimension_separator)

\* C5 (write-back): an eviction of a modified entry that the store accepts
\* issues exactly one store write of the entry's bytes at its chunk path
C5_OneWriteBack ==
    \A k \in 1..Len(ev) :
       (ev[k].modified /\ ev[k].wstat = NC_NOERR) =>
          Cardinality({j \in 1..Len(wlog) :
                          /\ wlog[j].path = PathOf(ev[k].indices)
                          /\ wlog[j].data = ev[k].data
                          /\ wlog[j].stat = NC_NOERR}) = 1

\* C5 (re-read): the next read of a chunk whose entry was written back on
\* eviction misses and hands back the bytes written back
C5_ReadBack ==
    (ReadDone' /\ expect[op'.indices].st = "evicted")
        => (~op'.hit /\ IsLive(heap', datap') /\ heap'[datap'].data = expect[op'.indices].data)

\* C5 (what is evicted): bytes that write put into the cache and that are not
\* yet in the store sit in a modified entry of the hash index, the only
\* entries make_room evicts and writes back
C5_WrittenIsEvictable ==
    \A i \in IndexTuples :
       expect[i].st = "cached" =>
          \E id \in Ids : /\ heap[id].live /\ heap[id].indices = i
                          /\ heap[id].modified /\ heap[id].data = expect[i].data
                          /\ InIndex(xcache, id)

\* C5: when make_room evicts a modified entry and the store accepts the write,
\* the store receives exactly one write of the entry's bytes at its chunk path
\* and the next read of the chunk misses and hands those bytes back; the bytes
\* of write(0)=B0 are written back this way when (0) is evicted.
C5_WriteBackOnEviction ==
    /\ [](C5_OneWriteBack /\ C5_WrittenIsEvictable)
    /\ [][C5_ReadBack]_vars

\* C6: every entry make_room evicts is, at that moment, the least recently
\* used live entry (used = inserted on a miss, created by write, or hit by a
\* read).
C6_EvictsLRU == \A k \in 1..Len(ev) : ev[k].waslru

\* C7: when the store reports the chunk absent, read does not fail for that
\* reason: unless the insertion runs out of memory it returns NC_EEMPTY and
\* hands back the buffer of a new entry for the indices, chunksize long and all
\* zero, that is on the recency list and in the hash index.
C7_AbsenceTransparency ==
    (~crashed /\ op.name = "read" /\ op.sres = NC_EEMPTY) =>
       /\ op.stat \in {NC_EEMPTY, NC_ENOMEM}
       /\ op.stat = NC_EEMPTY =>
            /\ IsLive(heap, datap)
            /\ heap[datap].indices = op.indices
            /\ heap[datap].data = Zeroes(chunksize)
            /\ Len(heap[datap].data) = chunksize
            /\ datap \in SeqToSet(mru)
            /\ InIndex(xcache, datap)
            /\ ~op.hit

\* a read fabricated a chunk that the store does not hold
C7_Witness ==
    /\ ~crashed /\ op.name = "read" /\ op.sres = NC_EEMPTY /\ op.stat = NC_EEMPTY
    /\ ~store[PathOf(op.indices)].present
    /\ IsLive(heap, datap) /\ heap[datap].data = Zeroes(chunksize)

\* C8 (bit): the entry a read fabricated is modified exactly when the dataset
\* is writable
C8_FabricatedBit ==
    (ReadDone /\ op.stat = NC_EEMPTY) => (heap[datap].modified = ~no_write)

\* C8 (read-only): on a read-only dataset no entry of the hash index is
\* modified, and no eviction and no flush issues a store write for one
C8_ReadOnlyNoWrite ==
    no_write =>
       /\ \A id \in Ids : (heap[id].live /\ InIndex(xcache, id)) => ~heap[id].modified
       /\ \A k \in 1..Len(ev) : ~ev[k].modified /\ ev[k].wstat = "none"
       /\ \A k \in 1..Len(wlog) : ~(wlog[k].live /\ wlog[k].inx)

\* C8 (writable): a flush that returns success issues exactly one store write
\* for each modified entry of the hash index, at the entry's chunk path
C8_FlushWritesOnce ==
    FlushOK =>
       \A id \in Ids :
          (heap[id].live /\ heap[id].modified /\ InIndex(xcache, id)) =>
             /\ Cardinality(WritesOf(wlog', id)) = 1
             /\ \A k \in WritesOf(wlog', id) :
                   /\ wlog'[k].path = PathOf(heap[id].indices)
                   /\ wlog'[k].stat = NC_NOERR

\* C8: the modified bit of an entry fabricated by read equals "the dataset is
\* writable"; read-only: not modified, and no later eviction or flush writes it
\* to the store; writable: modified, and the next successful flush issues
\* exactly one store write for it at the chunk's path.
C8_FabricatedModified ==
    /\ [](C8_FabricatedBit /\ C8_ReadOnlyNoWrite)
    /\ [][C8_FlushWritesOnce]_vars

\* on a writable dataset a flush returned success after writing a fabricated
\* entry, once
C8_Witness ==
    /\ ~crashed /\ ~no_write /\ op.name = "flush" /\ op.stat = NC_NOERR
    /\ \E k \in 1..Len(wlog) :
          /\ wlog[k].live /\ wlog[k].inx /\ wlog[k].data = Zeroes(chunksize)
          /\ Cardinality(WritesOf(wlog, wlog[k].id)) = 1

\* C9: whenever the store write of an eviction fails, the operation that
\* triggered make_room returns that failure.
C9_EvictionErrorReturned ==
    (~crashed /\ \E k \in 1..Len(ev) : ev[k].wstat = NC_EIO) => op.stat = NC_EIO

\* C10: whenever read returns an error, nothing references the entry it was
\* building: every pointer on the recency list and in the hash index names a
\* live entry.
C10_ReadErrorDiscards ==
    (~crashed /\ op.name = "read" /\ op.stat \notin {NC_NOERR, NC_EEMPTY}) =>
       /\ NoDangling
       /\ \A k \in 1..Len(xcache) : heap[xcache[k].content].live


\* the step is a flush that returned an error
FlushFailed == op'.name = "flush" /\ op'.stat # NC_NOERR /\ ~crashed'

\* the entry at address id differs between the two states in nothing but its
\* modified bit
SameButModified(id) == [heap'[id] EXCEPT !.modified = heap[id].modified] = heap[id]

C12_WriteHandsBackBuffer ==
    (~crashed /\ op.name = "write" /\ op.stat = NC_NOERR) =>
       /\ IsLive(heap, datap)
       /\ heap[datap].indices = op.indices
       /\ heap[datap].modified
       /\ Len(recency) > 0 /\ recency[1] = datap

\* the fields of the string s between occurrences of the character sep
RECURSIVE Split(_, _)
Split(s, sep) ==
    IF \A k \in 1..Len(s) : s[k] # sep THEN <<s>>
    ELSE LET k == CHOOSE j \in 1..Len(s) : s[j] = sep /\ \A h \in 1..(j - 1) : s[h] # sep
         IN  <<SubSeq(s, 1, k - 1)>> \o Split(SubSeq(s, k + 1, Len(s)), sep)

IsDigit(c) == \E d \in 1..10 : DigitChars[d] = c

DigitVal(c) == (CHOOSE d \in 1..10 : DigitChars[d] = c) - 1

\* the number a string of digits denotes
RECURSIVE Value(_)
Value(f) ==
    IF Len(f) = 0 THEN 0
    ELSE 10 * Value(SubSeq(f, 1, Len(f) - 1)) + DigitVal(f[Len(f)])

\* C13: the key NCZ_buildchunkkey returns is empty for rank 0; for rank R > 0
\* it consists of exactly R fields separated by the separator character (so
\* none leads or trails), the r-th field being the r-th index in decimal:
\* digits only, at least one, no leading zero, and denoting that index.
C13_ChunkKeyFormat ==
    (op.name = "NCZ_buildchunkkey") =>
       LET f == Split(op.key, op.dimsep)
       IN  /\ op.R = 0 => op.key = <<>>
           /\ op.R > 0 =>
                 /\ Len(f) = op.R
                 /\ \A r \in 1..op.R :
                       /\ Len(f[r]) > 0
                       /\ \A k \in 1..Len(f[r]) : IsDigit(f[r][k])
                       /\ Len(f[r]) > 1 => f[r][1] # "0"
                       /\ Value(f[r]) = op.chunkindices[r]

\* the key of the indices (2,4) with '.' is "2.4"
C13_Witness ==
    /\ op.name = "NCZ_buildchunkkey" /\ op.R = 2 /\ op.dimsep = "."
    /\ op.chunkindices = <<2, 4>>
    /\ op.key = <<"2", ".", "4">>

\* floor(a / b), as the largest q with q * b <= a
FloorOf(a, b) == CHOOSE q \in 0..a : q * b <= a /\ (q + 1) * b > a

\* C14: when NCZ_create_chunk_cache or NCZ_adjust_var_cache has completed,
\* maxentries is max(1, floor(chunk_cache_size / chunksize)); maxentries is
\* never 0 between calls.
C14_MaxEntries ==
    ~crashed =>
       /\ maxentries >= 1
       /\ op.name \in {"create", "adjust"} =>
             LET q == FloorOf(chunk_cache_size, chunksize)
             IN  maxentries = IF q >= 1 THEN q ELSE 1

\* a reconfiguration to a budget smaller than one chunk left maxentries at 1
C14_Witness ==
    /\ ~crashed /\ op.name = "adjust"
    /\ chunk_cache_size > 0 /\ chunk_cache_size < chunksize
    /\ maxentries = 1

\* C15: NCZ_free_chunk_cache, after any sequence of operations, completes
\* with no entry left on the recency list, in the hash index or on the heap
\* and without a store write; on a null handle it changes nothing.
C15_DestroyDrains ==
    [][/\ op'.name = "free" =>
             /\ ~crashed'
             /\ mru' = <<>> /\ xcache' = <<>>
             /\ \A id \in Ids : ~heap'[id].live
             /\ wlog' = <<>> /\ store' = store
       /\ op'.name = "free_null" =>
             UNCHANGED <<mru, xcache, heap, maxentries, chunksize, fillchunk, store>>]_vars

\* the entries the hash index reaches
IndexSet == {xcache[k].content : k \in 1..Len(xcache)}

\* C16: after every completed read, write, flush and reconfiguration the
\* entries reachable from the hash index are exactly the entries on the
\* recency list, all of them live, and the two structures have the same
\* length.
C16_IndexEqualsList ==
    (~crashed /\ op.name \in {"read", "write", "flush", "set_var_chunk_cache", "adjust"}) =>
       /\ IndexSet = SeqToSet(mru)
       /\ Len(xcache) = Len(mru)
       /\ \A id \in SeqToSet(mru) : heap[id].live

\* C17: at most one live entry exists per chunk-index tuple.
C17_OneEntryPerTuple ==
    ~crashed =>
       \A a, b \in Ids :
          (heap[a].live /\ heap[b].live /\ heap[a].indices = heap[b].indices) => a = b

\* the number of entries on the heap
LiveCount(h) == Cardinality({id \in Ids : h[id].live})

\* a pass through the loop body of makeroom that came back to the loop test
IterDone == InRoom /\ op'.name = "makeroom" /\ ~op'.exit /\ ~crashed'

\* makeroom left its loop through the loop test
LoopExit == InRoom /\ ~op.exit /\ ~crashed /\ op'.name # "makeroom"

\* C18: every call of makeroom comes to an end, whatever the cache holds and
\* also with maxentries set to 0 by NCZ_adjust_var_cache: each pass through
\* the loop that comes back to the loop test has shortened the recency list
\* and freed an entry, the loop is left through its test only when the list
\* is no longer than maxentries, and a call that is inside makeroom eventually
\* is not (it returned, or the process faulted).
C18_MakeroomTerminates ==
    /\ [][IterDone => (Len(mru') < Len(mru) /\ LiveCount(heap') < LiveCount(heap))]_vars
    /\ [][LoopExit => Len(mru) <= maxentries]_vars
    /\ (InRoom ~> (~InRoom \/ crashed))

\* the makeroom of a reconfiguration, with maxentries 0, emptied a cache of
\* two entries and returned
C18_Witness ==
    /\ ~crashed /\ op.name = "adjust"
    /\ Len(ev) = 2 /\ mru = <<>> /\ xcache = <<>>

\* C19: a flush that returns, with success or with an error, evicts nothing:
\* the recency list, the hash index, the order of use, the set of entries and
\* their buffers are as before; only modified bits and the store change.
C19_FlushDoesNotEvict ==
    [][(op'.name = "flush" /\ ~crashed') =>
          /\ mru' = mru
          /\ xcache' = xcache
          /\ recency' = recency
          /\ ev' = <<>>
          /\ \A id \in Ids : SameButModified(id)]_vars

\* a flush wrote an entry to the store and the cache still holds its two
\* entries
C19_Witness ==
    /\ ~crashed /\ op.name = "flush"
    /\ Len(mru) = 2 /\ \A k \in 1..2 : heap[mru[k]].live
    /\ \E k \in 1..Len(wlog) : wlog[k].live /\ wlog[k].stat = NC_NOERR

\* C20: the buffer of a chunk that read fabricated holds the contents of
\* cache->fillchunk when the cache has one, and zeroes only when it has none.
C20_FabricatesFromFillchunk ==
    (~crashed /\ op.name = "read" /\ op.stat = NC_EEMPTY) =>
       /\ IsLive(heap, datap)
       /\ heap[datap].data = IF fillchunk # NoFill THEN fillchunk ELSE Zeroes(chunksize)

\* C21: in every state, also after NCZ_adjust_var_cache gave the cache another
\* chunksize, the data buffer of every live entry is exactly chunksize bytes
\* long and the entry's hashkey is the hash of its indices.
C21_BufferLength ==
    ~crashed =>
       \A id \in Ids :
          heap[id].live =>
             /\ Len(heap[id].data) = chunksize
             /\ heap[id].hashkey = ncxcachekey(heap[id].indices)

\* a reconfiguration to another chunksize evicted an entry whose buffer had
\* the old length
C21_Witness ==
    /\ ~crashed /\ op.name = "adjust"
    /\ Len(ev) > 0 /\ Len(ev[1].data) # chunksize
    /\ \A id \in Ids : ~heap[id].live

\* makeroom, were it to run a pass of its loop now, would find a least
\* recently used entry in the hash index, get that entry back from
\* ncxcacheremove and find it on the recency list
MakeroomAsserts ==
    LET e == ncxcachelast(xcache)
    IN  /\ e # NULL
        /\ LET rm == ncxcacheremove(xcache, heap[e].hashkey)
           IN  /\ rm.content = e
               /\ mru_scan(mru, rm.content) <= Len(mru)

\* NCZ_free_chunk_cache, were it to run now, would get every entry of the
\* recency list back from the hash index
FreeAsserts == \A r \in free_loop(World) : ~r.crash

\* C22: after any sequence of read, write, flush and reconfiguration the
\* assertions of makeroom and of NCZ_free_chunk_cache hold: when the recency
\* list is not empty (over the capacity 0 that a reconfiguration sets), or
\* over maxentries, the hash index has a least recently used entry, that
\* entry is the one removed and it is on the list; and on destruction every
\* list entry is found in the hash index.
C22_InternalAsserts ==
    (~crashed /\ op.name # "free") =>
       /\ Len(mru) > 0 => MakeroomAsserts
       /\ FreeAsserts

\* C23: the buffer a read of the index tuple i hands back, on a hit as on a
\* miss, belongs to an entry whose stored indices are i, also when the hash
\* key of i is that of another tuple: read(a); read(b) never hands back the
\* buffer of a for b.
C23_HitMatchesIndices ==
    (~crashed /\ op.name = "read" /\ op.stat \in {NC_NOERR, NC_EEMPTY}) =>
       /\ IsLive(heap, datap)
       /\ heap[datap].indices = op.indices

====
